---- MODULE Spec2Model ----
(***************************************************************************)
(* Model of src/scenario_manager.py (ScenarioManager): validation of a     *)
(* scenario collection, generation of the SYSTEM_PROMPT_PAIRS section of   *)
(* config.py, parsing of config.py, and the backup / temp-file / replace   *)
(* protocol of save_scenarios.                                             *)
(*                                                                         *)
(* Text is a sequence of symbols.  Inside string literals the symbols      *)
(* "q" (double quote), "s" (single quote), "b" (backslash), "SP" (blank),  *)
(* "NL" (line feed), "y", "z" (ordinary letters) and the slot ids are      *)
(* characters; outside they are the tokens of the host document:           *)
(* "ID" (the name SYSTEM_PROMPT_PAIRS), "EQ", "LB", "RB", "COLON",         *)
(* "COMMA", "SEMI", "CMT" (a '#' comment up to the end of its line) and    *)
(* "STMT" (some other simple statement).                                   *)
(***************************************************************************)
EXTENDS Integers, Sequences, FiniteSets, TLC

\* ------------------------------------------------------------------ bounds
MaxTextLen == 5      \* longest prompt text drawn for the serializer/parser
MaxScen == 2         \* most scenarios in a collection drawn for the validator
MaxSaves == 2        \* save_scenarios calls in one behaviour
MaxClock == 1        \* seconds the wall clock can advance
MaxEvents == 4       \* user actions handled by one editor dialog
MaxWrites == 1       \* writes to config.py by another process

\* --------------------------------------------------------- program constants
CONFIG_NAME == "ID"
REQUIRED_SLOTS == <<"AI-1", "AI-2", "AI-3", "AI-4", "AI-5">>

ExtraSlot == "AI-6"
SlotOrder == REQUIRED_SLOTS \o <<ExtraSlot>>
NotAString == <<"<int>">>
Absent == <<"<absent>">>

\* ------------------------------------------------------------ sequence helpers
Range(f) == {f[i] : i \in DOMAIN f}

HasChar(t, c) == \E i \in DOMAIN t : t[i] = c

EndsWith(t, suf) ==
  /\ Len(t) >= Len(suf)
  /\ SubSeq(t, Len(t) - Len(suf) + 1, Len(t)) = suf

StartsAt(t, i, pat) ==
  /\ i + Len(pat) - 1 <= Len(t)
  /\ SubSeq(t, i, i + Len(pat) - 1) = pat

RECURSIVE Join(_, _)
Join(ls, sep) ==
  IF ls = <<>> THEN <<>>
  ELSE IF Len(ls) = 1 THEN ls[1]
  ELSE ls[1] \o sep \o Join(Tail(ls), sep)

RECURSIVE Flatten(_)
Flatten(ls) == IF ls = <<>> THEN <<>> ELSE ls[1] \o Flatten(Tail(ls))

\* code point order of the characters, as str comparison uses it
Ord(c) ==
  CASE c = "NL" -> 10
    [] c = "SP" -> 32
    [] c = "q" -> 34
    [] c = "s" -> 39
    [] c = "b" -> 92
    [] c = "y" -> 121
    [] c = "z" -> 122
    [] OTHER -> 65

RECURSIVE StrLess(_, _)
StrLess(a, b) ==
  IF b = <<>> THEN FALSE
  ELSE IF a = <<>> THEN TRUE
  ELSE IF Ord(a[1]) # Ord(b[1]) THEN Ord(a[1]) < Ord(b[1])
  ELSE StrLess(Tail(a), Tail(b))

\* str.strip(): drop leading and trailing whitespace
RECURSIVE LStrip(_)
LStrip(t) ==
  IF t # <<>> /\ t[1] \in {"SP", "NL"} THEN LStrip(Tail(t)) ELSE t

RECURSIVE RStrip(_)
RStrip(t) ==
  IF t # <<>> /\ t[Len(t)] \in {"SP", "NL"}
  THEN RStrip(SubSeq(t, 1, Len(t) - 1)) ELSE t

Strip(t) == RStrip(LStrip(t))

\* ------------------------------------------------------------------ validator
\* A collection is the sequence of its items (name, prompts) in iteration
\* order; prompts is a function from slot ids to values.
Ok == [ok |-> TRUE, err |-> <<>>]
Err(m) == [ok |-> FALSE, err |-> m]

IsString(v) == v # NotAString

\* variant: only the first missing slot is reported
MissingSlots_first(prompts) ==
  LET all == SelectSeq(REQUIRED_SLOTS, LAMBDA slot : slot \notin DOMAIN prompts)
  IN SubSeq(all, 1, 1)

MissingSlots(prompts) ==
  SelectSeq(REQUIRED_SLOTS, LAMBDA slot : slot \notin DOMAIN prompts)

NonStringSlots(prompts) ==
  SelectSeq(SlotOrder,
            LAMBDA slot : slot \in DOMAIN prompts /\ ~IsString(prompts[slot]))

\* variant: the slots are checked before the quote characters of the name
validate_scenario_slots_first(name, prompts) ==
  IF name = <<>> \/ Strip(name) = <<>>
    THEN Err(<<"Scenario name cannot be empty">>)
  ELSE IF MissingSlots(prompts) # <<>>
    THEN Err(<<"Missing required AI slots", MissingSlots(prompts)>>)
  ELSE IF HasChar(name, "q") /\ HasChar(name, "s")
    THEN Err(<<"Scenario name cannot contain both single and double quotes">>)
  ELSE IF NonStringSlots(prompts) # <<>>
    THEN Err(<<"Prompt must be a string", NonStringSlots(prompts)[1]>>)
  ELSE Ok

validate_scenario(name, prompts) ==
  IF name = <<>> \/ Strip(name) = <<>>
    THEN Err(<<"Scenario name cannot be empty">>)
  ELSE IF HasChar(name, "q") /\ HasChar(name, "s")
    THEN Err(<<"Scenario name cannot contain both single and double quotes">>)
  ELSE IF MissingSlots(prompts) # <<>>
    THEN Err(<<"Missing required AI slots", MissingSlots(prompts)>>)
  ELSE IF NonStringSlots(prompts) # <<>>
    THEN Err(<<"Prompt must be a string", NonStringSlots(prompts)[1]>>)
  ELSE Ok

Names(scenarios) == [i \in DOMAIN scenarios |-> scenarios[i].name]

RECURSIVE ValidateEach(_, _)
ValidateEach(scenarios, i) ==
  IF i > Len(scenarios) THEN Ok
  ELSE LET r == validate_scenario(scenarios[i].name, scenarios[i].prompts)
       IN IF ~r.ok THEN Err(<<"Scenario", scenarios[i].name>> \o r.err)
          ELSE ValidateEach(scenarios, i + 1)

validate_all_scenarios(scenarios) ==
  IF scenarios = <<>>
    THEN Err(<<"Must have at least one scenario">>)
  ELSE IF Len(scenarios) # Cardinality(Range(Names(scenarios)))
    THEN Err(<<"Duplicate scenario names found">>)
  ELSE ValidateEach(scenarios, 1)

\* ----------------------------------------------------------------- serializer
\* str.replace('\\', '\\\\')
RECURSIVE DoubleBackslashes(_)
DoubleBackslashes(t) ==
  IF t = <<>> THEN <<>>
  ELSE IF t[1] = "b" THEN <<"b", "b">> \o DoubleBackslashes(Tail(t))
  ELSE <<t[1]>> \o DoubleBackslashes(Tail(t))

\* str.replace('"""', '\\"""'): leftmost, non-overlapping occurrences
RECURSIVE EscapeTripleQuotes(_)
EscapeTripleQuotes(t) ==
  IF t = <<>> THEN <<>>
  ELSE IF StartsAt(t, 1, <<"q", "q", "q">>)
    THEN <<"b", "q", "q", "q">> \o EscapeTripleQuotes(SubSeq(t, 4, Len(t)))
  ELSE <<t[1]>> \o EscapeTripleQuotes(Tail(t))

EscapePrompt(prompt_text) ==
  LET escaped == EscapeTripleQuotes(DoubleBackslashes(prompt_text))
  IN IF EndsWith(escaped, <<"q">>)
       THEN SubSeq(escaped, 1, Len(escaped) - 1) \o <<"b", "q">>
     ELSE IF EndsWith(escaped, <<"q", "q">>)
       THEN SubSeq(escaped, 1, Len(escaped) - 2) \o <<"q", "b", "q">>
     ELSE escaped

\* sorted(scenarios.items()): insertion sort by name
RECURSIVE InsertSorted(_, _)
InsertSorted(item, sorted) ==
  IF sorted = <<>> THEN <<item>>
  ELSE IF StrLess(item.name, sorted[1].name) THEN <<item>> \o sorted
  ELSE <<sorted[1]>> \o InsertSorted(item, Tail(sorted))

\* variant: the items are emitted in insertion order
SortItems_insertion_order(items) == items

RECURSIVE SortItems(_)
SortItems(items) ==
  IF items = <<>> THEN <<>>
  ELSE InsertSorted(items[Len(items)], SortItems(SubSeq(items, 1, Len(items) - 1)))

NameQuote(scenario_name) == IF HasChar(scenario_name, "q") THEN "s" ELSE "q"

PromptGet(prompts, slot) ==
  IF slot \in DOMAIN prompts THEN prompts[slot] ELSE <<>>

SlotLines(prompts, k) ==
  <<  <<"SP", "q", REQUIRED_SLOTS[k], "q", "COLON", "q", "q", "q">>
        \o EscapePrompt(PromptGet(prompts, REQUIRED_SLOTS[k]))
        \o <<"q", "q", "q", "COMMA">>  >>
  \o (IF k # Len(REQUIRED_SLOTS) THEN << <<"SP">> >> ELSE <<>>)

ScenarioLines(item, isLast) ==
  <<  <<"SP", NameQuote(item.name)>> \o item.name
        \o <<NameQuote(item.name), "COLON", "LB">>  >>
  \o Flatten([k \in 1..Len(REQUIRED_SLOTS) |-> SlotLines(item.prompts, k)])
  \o (IF isLast THEN << <<"SP", "RB">> >>
      ELSE << <<"SP", "RB", "COMMA">>, <<"SP">> >>)

\* lines 227-277: the text of the regenerated binding
SectionText(scenarios) ==
  LET sorted_scenarios == SortItems(scenarios)
      n == Len(sorted_scenarios)
  IN Join(  << <<CONFIG_NAME, "EQ", "LB">>, <<"SP", "CMT">>, <<"SP">> >>
            \o Flatten([i \in 1..n |-> ScenarioLines(sorted_scenarios[i], i = n)])
            \o << <<"RB">> >>,
          <<"NL">>)

\* --------------------------------------------------- tokenizer (ast.parse)
\* value of the escape sequence backslash + d inside a string literal
Unescape(d) ==
  IF d = "NL" THEN <<>>
  ELSE IF d \in {"b", "q", "s"} THEN <<d>>
  ELSE <<"b", d>>

Tok(kind, val, first, last, line, eline) ==
  [k |-> kind, v |-> val, s |-> first, e |-> last, l |-> line, el |-> eline]

Punctuation ==
  {"ID", "EQ", "COLON", "COMMA", "SEMI", "STMT", "LB", "RB", "NUM"}
Layout == {"SP", "NL", "CMT", "b", "q", "s"}
IsIdentChar(c) == c \notin Punctuation \cup Layout

RECURSIVE SkipBlanks(_, _)
SkipBlanks(t, i) ==
  IF i <= Len(t) /\ t[i] = "SP" THEN SkipBlanks(t, i + 1) ELSE i

\* leading blanks of a logical line that holds a statement: unexpected indent
IsIndent(t, i, depth) ==
  /\ depth = 0
  /\ i = 1 \/ t[i - 1] = "NL"
  /\ LET j == SkipBlanks(t, i)
     IN j <= Len(t) /\ t[j] \notin {"NL", "CMT"}

\* The tokenizer reads the text one symbol at a time.  mode is "code",
\* "cmt" (in a comment), "str1" / "str3" (in a string literal opened by one /
\* three quote characters c) or "err"; skip counts symbols already consumed
\* by lookahead; depth is the bracket depth; v, s, l are the value, first
\* index and first line of the literal being read.
LexInit ==
  [mode |-> "code", c |-> "", skip |-> 0, depth |-> 0, line |-> 1,
   v |-> <<>>, s |-> 0, l |-> 0, toks |-> <<>>]

LexNewline(st, i) ==
  [st EXCEPT !.mode = "code", !.line = @ + 1,
             !.toks = IF st.depth > 0 THEN @
                      ELSE Append(@, Tok("NL", <<>>, i, i, st.line, st.line))]

LexCode(st, t, i) ==
  LET c == t[i] IN
  IF c = "SP" THEN
    IF IsIndent(t, i, st.depth) THEN [st EXCEPT !.mode = "err"] ELSE st
  ELSE IF c = "CMT" THEN [st EXCEPT !.mode = "cmt"]
  ELSE IF c = "NL" THEN LexNewline(st, i)
  ELSE IF c = "b" THEN
    IF i + 1 <= Len(t) /\ t[i + 1] = "NL"
      THEN [st EXCEPT !.skip = 1, !.line = @ + 1]
    ELSE [st EXCEPT !.mode = "err"]
  ELSE IF c \in {"q", "s"} THEN
    IF StartsAt(t, i, <<c, c, c>>)
      THEN [st EXCEPT !.mode = "str3", !.c = c, !.skip = 2, !.v = <<>>,
                      !.s = i, !.l = st.line]
    ELSE [st EXCEPT !.mode = "str1", !.c = c, !.v = <<>>, !.s = i, !.l = st.line]
  ELSE IF c \in Punctuation THEN
    [st EXCEPT !.depth = IF c = "LB" THEN @ + 1
                         ELSE IF c = "RB" /\ @ > 0 THEN @ - 1 ELSE @,
               !.toks = Append(@, Tok(c, <<>>, i, i, st.line, st.line))]
  ELSE \* a character of an identifier
    LET n == Len(st.toks) IN
    IF n > 0 /\ st.toks[n].k = "NAME" /\ st.toks[n].e = i - 1
      THEN [st EXCEPT !.toks[n].e = i]
    ELSE [st EXCEPT !.toks = Append(@, Tok("NAME", <<>>, i, i, st.line, st.line))]

LexString(st, t, i) ==
  LET c == t[i] IN
  IF c = "b" THEN
    IF i + 1 > Len(t) THEN [st EXCEPT !.mode = "err"]
    ELSE [st EXCEPT !.skip = 1, !.v = @ \o Unescape(t[i + 1]),
                    !.line = IF t[i + 1] = "NL" THEN @ + 1 ELSE @]
  ELSE IF st.mode = "str3" /\ StartsAt(t, i, <<st.c, st.c, st.c>>) THEN
    [st EXCEPT !.mode = "code", !.skip = 2,
               !.toks = Append(@, Tok("STR", st.v, st.s, i + 2, st.l, st.line))]
  ELSE IF st.mode = "str1" /\ c = st.c THEN
    [st EXCEPT !.mode = "code",
               !.toks = Append(@, Tok("STR", st.v, st.s, i, st.l, st.line))]
  ELSE IF st.mode = "str1" /\ c = "NL" THEN [st EXCEPT !.mode = "err"]
  ELSE [st EXCEPT !.v = Append(@, c),
                  !.line = IF c = "NL" THEN @ + 1 ELSE @]

LexStep(st, t, i) ==
  IF st.skip > 0 THEN [st EXCEPT !.skip = @ - 1]
  ELSE IF st.mode = "code" THEN LexCode(st, t, i)
  ELSE IF st.mode = "cmt" THEN (IF t[i] = "NL" THEN LexNewline(st, i) ELSE st)
  ELSE LexString(st, t, i)

\* the symbols lo..hi in order, halving the range
RECURSIVE LexRange(_, _, _, _)
LexRange(t, lo, hi, st) ==
  IF lo > hi \/ st.mode = "err" THEN st
  ELSE IF lo = hi THEN LexStep(st, t, lo)
  ELSE LET mid == (lo + hi) \div 2
       IN LexRange(t, mid + 1, hi, LexRange(t, lo, mid, st))

\* the tokens of the text; an unterminated string literal is an error
Lex(t) ==
  LET st == LexRange(t, 1, Len(t), LexInit)
  IN [ok |-> st.mode \in {"code", "cmt"}, toks |-> st.toks]

\* ------------------------------------------------------ parser (ast.parse)
ParseFail == [ok |-> FALSE, val |-> <<>>, next |-> 0, e |-> 0, el |-> 0]

KindAt(toks, p) == IF p <= Len(toks) THEN toks[p].k ELSE "EOF"

\* adjacent string literals are one string
RECURSIVE ParseStrings(_, _, _)
ParseStrings(toks, p, acc) ==
  IF KindAt(toks, p + 1) = "STR"
    THEN ParseStrings(toks, p + 1, acc \o toks[p + 1].v)
  ELSE [ok |-> TRUE, val |-> [t |-> "str", v |-> acc], next |-> p + 1,
        e |-> toks[p].e, el |-> toks[p].el]

RECURSIVE ParseExpr(_, _)
RECURSIVE ParseDict(_, _, _)

ParseExpr(toks, p) ==
  IF KindAt(toks, p) = "STR" THEN ParseStrings(toks, p, toks[p].v)
  ELSE IF KindAt(toks, p) \in {"NAME", "ID"}
    THEN [ok |-> TRUE, val |-> [t |-> "name", v |-> <<>>], next |-> p + 1,
          e |-> toks[p].e, el |-> toks[p].el]
  ELSE IF KindAt(toks, p) = "NUM"
    THEN [ok |-> TRUE, val |-> [t |-> "num", v |-> NotAString], next |-> p + 1,
          e |-> toks[p].e, el |-> toks[p].el]
  ELSE IF KindAt(toks, p) = "LB" THEN ParseDict(toks, p + 1, <<>>)
  ELSE ParseFail

ParseDict(toks, p, items) ==
  IF KindAt(toks, p) = "RB"
    THEN [ok |-> TRUE, val |-> [t |-> "dict", v |-> items], next |-> p + 1,
          e |-> toks[p].e, el |-> toks[p].el]
  ELSE LET key == ParseExpr(toks, p) IN
    IF ~key.ok \/ KindAt(toks, key.next) # "COLON" THEN ParseFail
    ELSE LET val == ParseExpr(toks, key.next + 1) IN
      IF ~val.ok THEN ParseFail
      ELSE LET items2 == Append(items, <<key.val, val.val>>) IN
        IF KindAt(toks, val.next) = "COMMA"
          THEN ParseDict(toks, val.next + 1, items2)
        ELSE IF KindAt(toks, val.next) = "RB"
          THEN ParseDict(toks, val.next, items2)
        ELSE ParseFail

\* one simple statement: another statement, a binding of the name, an expression
ParseStmt(toks, p) ==
  IF KindAt(toks, p) = "STMT"
    THEN [ok |-> TRUE, next |-> p + 1,
          node |-> [kind |-> "other", val |-> <<>>, lineno |-> toks[p].l,
                    end_lineno |-> toks[p].el, s |-> toks[p].s, e |-> toks[p].e]]
  ELSE IF KindAt(toks, p) = "ID" /\ KindAt(toks, p + 1) = "EQ" THEN
    LET r == ParseExpr(toks, p + 2) IN
    [ok |-> r.ok, next |-> r.next,
     node |-> [kind |-> "assign", val |-> r.val, lineno |-> toks[p].l,
               end_lineno |-> r.el, s |-> toks[p].s, e |-> r.e]]
  ELSE LET r == ParseExpr(toks, p) IN
    [ok |-> r.ok, next |-> r.next,
     node |-> [kind |-> "expr", val |-> r.val, lineno |-> toks[p].l,
               end_lineno |-> r.el, s |-> toks[p].s, e |-> r.e]]

RECURSIVE ParseModule(_, _, _, _)
ParseModule(toks, p, body, atLineStart) ==
  IF p > Len(toks) THEN [ok |-> TRUE, body |-> body]
  ELSE IF toks[p].k = "NL" THEN ParseModule(toks, p + 1, body, TRUE)
  ELSE IF toks[p].k = "SEMI" THEN
    IF atLineStart \/ KindAt(toks, p + 1) = "SEMI"
      THEN [ok |-> FALSE, body |-> <<>>]
    ELSE ParseModule(toks, p + 1, body, TRUE)
  ELSE IF ~atLineStart THEN [ok |-> FALSE, body |-> <<>>]
  ELSE LET r == ParseStmt(toks, p) IN
    IF ~r.ok THEN [ok |-> FALSE, body |-> <<>>]
    ELSE ParseModule(toks, r.next, Append(body, r.node), FALSE)

\* ast.parse(content): the statements of the module, or a SyntaxError
ast_parse(content) ==
  LET lx == Lex(content)
  IN IF ~lx.ok THEN [ok |-> FALSE, body |-> <<>>]
     ELSE ParseModule(lx.toks, 1, <<>>, TRUE)

\* the Assign nodes of the tree that bind the name, in ast.walk order
Bindings(tree) == SelectSeq(tree.body, LAMBDA node : node.kind = "assign")

\* ------------------------------------------------------------ load_scenarios
\* ast.literal_eval converts keys and values from left to right: a node that
\* is not a literal raises ValueError, a dict used as a key raises TypeError
\* when its item is stored; "" when the expression evaluates
RECURSIVE LiteralError(_)
RECURSIVE ItemsError(_, _)
LiteralError(val) ==
  IF val.t \in {"str", "num"} THEN ""
  ELSE IF val.t = "dict" THEN ItemsError(val.v, 1)
  ELSE "ValueError"

ItemsError(items, i) ==
  IF i > Len(items) THEN ""
  ELSE LET k == LiteralError(items[i][1]) IN
    IF k # "" THEN k
    ELSE LET v == LiteralError(items[i][2]) IN
      IF v # "" THEN v
      ELSE IF items[i][1].t = "dict" THEN "TypeError"
      ELSE ItemsError(items, i + 1)

IsLiteral(val) == LiteralError(val) = ""

\* the dict a dict display evaluates to: a later item replaces an equal key
RECURSIVE EvalLiteral(_)
EvalLiteral(val) ==
  IF val.t # "dict" THEN val
  ELSE LET keys == {val.v[i][1].v : i \in DOMAIN val.v}
           last(k) == CHOOSE i \in DOMAIN val.v :
                        /\ val.v[i][1].v = k
                        /\ \A j \in DOMAIN val.v : val.v[j][1].v = k => j <= i
       IN [t |-> "dict", v |-> [k \in keys |-> EvalLiteral(val.v[last(k)][2])]]

LoadFail(kind) == [ok |-> FALSE, err |-> kind, scenarios |-> <<>>]

\* variant: the last binding of the name is read
load_scenarios_last_binding(file) ==
  IF file = Absent THEN LoadFail("FileNotFoundError")
  ELSE LET tree == ast_parse(file) IN
    IF ~tree.ok THEN LoadFail("ValueError: config.py has syntax errors")
    ELSE IF Bindings(tree) = <<>>
      THEN LoadFail("ValueError: SYSTEM_PROMPT_PAIRS not found")
    ELSE LET value == Bindings(tree)[Len(Bindings(tree))].val IN
      IF LiteralError(value) = "TypeError"
        THEN LoadFail("TypeError: unhashable type")
      ELSE IF ~IsLiteral(value)
        THEN LoadFail("ValueError: Failed to parse SYSTEM_PROMPT_PAIRS value")
      ELSE IF value.t # "dict"
        THEN LoadFail("ValueError: SYSTEM_PROMPT_PAIRS is not a dictionary")
      ELSE [ok |-> TRUE, err |-> "", scenarios |-> EvalLiteral(value)]

\* lines 29-91
load_scenarios(file) ==
  IF file = Absent THEN LoadFail("FileNotFoundError")
  ELSE LET tree == ast_parse(file) IN
    IF ~tree.ok THEN LoadFail("ValueError: config.py has syntax errors")
    ELSE IF Bindings(tree) = <<>>
      THEN LoadFail("ValueError: SYSTEM_PROMPT_PAIRS not found")
    ELSE LET value == Bindings(tree)[1].val IN
      IF LiteralError(value) = "TypeError"
        THEN LoadFail("TypeError: unhashable type")
      ELSE IF ~IsLiteral(value)
        THEN LoadFail("ValueError: Failed to parse SYSTEM_PROMPT_PAIRS value")
      ELSE IF value.t # "dict"
        THEN LoadFail("ValueError: SYSTEM_PROMPT_PAIRS is not a dictionary")
      ELSE [ok |-> TRUE, err |-> "", scenarios |-> EvalLiteral(value)]

\* ----------------------------------------------------- generate_config_content
\* original_content.split('\n')
SplitLines(t) ==
  LET nls == {i \in DOMAIN t : t[i] = "NL"}
      n == Cardinality(nls)
      nth(k) == CHOOSE i \in nls : Cardinality({j \in nls : j <= i}) = k
  IN [k \in 1..(n + 1) |->
        SubSeq(t, IF k = 1 THEN 1 ELSE nth(k - 1) + 1,
                  IF k = n + 1 THEN Len(t) ELSE nth(k) - 1)]

RECURSIVE SumLineLengths(_, _)
\* sum(len(line) + 1 for line in lines[:n])
SumLineLengths(lines, n) ==
  IF n <= 0 \/ lines = <<>> THEN 0
  ELSE Len(lines[1]) + 1 + SumLineLengths(Tail(lines), n - 1)

\* original_content[a:b] with 0-based a, b as Python slices them
Slice(t, a, b) ==
  SubSeq(t, (IF a > Len(t) THEN Len(t) ELSE a) + 1,
            IF b > Len(t) THEN Len(t) ELSE b)

GenFail(kind) == [ok |-> FALSE, err |-> kind, content |-> <<>>]

\* lines 201-225: the cut points, taken from the last matching Assign visited
SectionSpan(original_content, tree) ==
  LET found == Bindings(tree)
      node == found[Len(found)]
      lines == SplitLines(original_content)
  IN [start_idx |-> SumLineLengths(lines, node.lineno - 1),
      end_idx |-> SumLineLengths(lines, node.end_lineno)]

\* variant: a missing file is written from scratch
generate_config_content_creates(file, scenarios) ==
  IF file = Absent
    THEN [ok |-> TRUE, err |-> "", content |-> SectionText(scenarios)]
  ELSE LET tree == ast_parse(file) IN
    IF ~tree.ok THEN GenFail("ValueError: config.py has syntax errors")
    ELSE IF Bindings(tree) = <<>>
      THEN GenFail("ValueError: Could not locate SYSTEM_PROMPT_PAIRS")
    ELSE IF \E i \in DOMAIN scenarios, k \in DOMAIN REQUIRED_SLOTS :
              ~IsString(PromptGet(scenarios[i].prompts, REQUIRED_SLOTS[k]))
      THEN GenFail("AttributeError")     \* prompt_text.replace
    ELSE LET span == SectionSpan(file, tree)
             before == Slice(file, 0, span.start_idx)
             after == Slice(file, span.end_idx, Len(file))
         IN [ok |-> TRUE, err |-> "",
             content |-> before \o SectionText(scenarios) \o after]

\* lines 176-283
generate_config_content(file, scenarios) ==
  IF file = Absent THEN GenFail("FileNotFoundError")
  ELSE LET tree == ast_parse(file) IN
    IF ~tree.ok THEN GenFail("ValueError: config.py has syntax errors")
    ELSE IF Bindings(tree) = <<>>
      THEN GenFail("ValueError: Could not locate SYSTEM_PROMPT_PAIRS")
    ELSE IF \E i \in DOMAIN scenarios, k \in DOMAIN REQUIRED_SLOTS :
              ~IsString(PromptGet(scenarios[i].prompts, REQUIRED_SLOTS[k]))
      THEN GenFail("AttributeError")     \* prompt_text.replace
    ELSE LET span == SectionSpan(file, tree)
             before == Slice(file, 0, span.start_idx)
             after == Slice(file, span.end_idx, Len(file))
         IN [ok |-> TRUE, err |-> "",
             content |-> before \o SectionText(scenarios) \o after]

\* variant: the syntax checks of save_scenarios accept any text
ParsesAsPython_unchecked(text) == TRUE

\* the try: ast.parse(...) checks of save_scenarios, lines 311-314, 322-327
ParsesAsPython(text) == ast_parse(text).ok

\* ---------------------------------------------------------------- inputs
AllSlots == {REQUIRED_SLOTS[k] : k \in 1..Len(REQUIRED_SLOTS)}

RECURSIVE TextsUpTo(_, _)
TextsUpTo(chars, n) ==
  IF n = 0 THEN {<<>>}
  ELSE LET shorter == TextsUpTo(chars, n - 1)
       IN shorter \cup {Append(t, c) : t \in shorter, c \in chars}

EmptyPrompts == [slot \in AllSlots |-> <<>>]
Scenario(name, prompts) == [name |-> name, prompts |-> prompts]

\* slot maps drawn for the validator: complete, one and two slots missing,
\* a slot outside the closed set, a value that is not a string
ValidatorPrompts ==
  { EmptyPrompts,
    [slot \in AllSlots \ {"AI-3"} |-> <<>>],
    [slot \in AllSlots \ {"AI-1", "AI-4"} |-> <<"z">>],
    [slot \in AllSlots \cup {ExtraSlot} |-> <<"z">>],
    [EmptyPrompts EXCEPT !["AI-2"] = NotAString] }

ValidatorNames ==
  { <<>>, <<"SP">>, <<"z">>, <<"y">>, <<"q", "s">> }

ValidatorEntries ==
  {Scenario(n, p) : n \in ValidatorNames, p \in ValidatorPrompts}

RECURSIVE SeqsUpTo(_, _)
SeqsUpTo(S, n) ==
  IF n = 0 THEN {<<>>}
  ELSE LET shorter == SeqsUpTo(S, n - 1)
       IN shorter \cup {Append(q, x) : q \in shorter, x \in S}

ValidatorInputs == SeqsUpTo(ValidatorEntries, MaxScen)

PromptChars == {"q", "b", "z"}

\* collections drawn for the serializer and the parser
SerializerNames == { <<"z">>, <<"q", "z">>, <<"b", "b">>, <<"s">> }

SerializerInputs ==
  { <<Scenario(<<"z">>, [EmptyPrompts EXCEPT !["AI-1"] = t])>> :
      t \in TextsUpTo(PromptChars, MaxTextLen) }
  \cup
  { <<Scenario(n, [EmptyPrompts EXCEPT !["AI-5"] = t]),
      Scenario(<<"y">>, [EmptyPrompts EXCEPT !["AI-2"] = <<"z", "q">>])>> :
      n \in SerializerNames, t \in TextsUpTo(PromptChars, 1) }

PipelineInputs == ValidatorInputs \cup SerializerInputs

\* ------------------------------------------------------------------ state
VARIABLES
  host,           \* content of config.py, or Absent
  tmp,            \* content of config.py.tmp, or Absent
  backups,        \* content of config.py.backup-<second>, or Absent
  now,            \* the wall clock, in seconds
  pc,             \* position of the running save_scenarios call
  scenarios,      \* its argument
  create_backup,  \* its flag
  new_content,    \* its local new_content
  backup_path,    \* its local backup_path (the second), -1 when unset
  result,         \* what the last call returned
  trace,          \* the steps of the call that have succeeded so far
  host0, tmp0, backups0,  \* the files when the call started
  calls,          \* number of save_scenarios calls so far
  input,          \* pipeline: the collection under test
  stage,          \* pipeline: "input", "validated", "serialized", "parsed"
  verdict,        \* pipeline: result of validate_all_scenarios(input)
  section,        \* pipeline: SectionText(input)
  loaded,         \* pipeline: result of load_scenarios on section
  loaded_from,    \* content of config.py when load_scenarios last read it
  names,          \* what get_scenario_names returned
  dialog,         \* the fields of the ScenarioEditorDialog
  events          \* number of user actions the dialog has handled

fsVars == <<host, tmp, backups, now>>
callVars == <<pc, scenarios, create_backup, new_content, backup_path, result,
              trace, host0, tmp0, backups0, calls>>
pipeVars == <<input, stage, verdict, section, loaded, loaded_from>>
uiVars == <<names, dialog, events>>
vars == <<fsVars, callVars, pipeVars, uiVars>>

NoResult == [ok |-> FALSE, msg |-> <<>>]
Seconds == 0..MaxClock

\* ------------------------------------------------- host documents at start
BaseCollection == <<Scenario(<<"z">>, EmptyPrompts)>>
BaseSection == SectionText(BaseCollection)

InitialHosts ==
  { BaseSection \o <<"NL">>,
    BaseSection,
    <<"STMT", "NL">> \o BaseSection \o <<"NL", "NL", "STMT", "NL">>,
    <<"CMT", "NL">> \o BaseSection \o <<"NL", "STMT", "NL">>,
    <<"STMT", "SEMI">> \o BaseSection \o <<"SEMI", "STMT", "CMT", "NL">>,
    Absent }

\* collections passed to save_scenarios
\* the base collection after _on_rename_scenario renamed its scenario
RenamedCollection == <<Scenario(<<"y">>, EmptyPrompts)>>

SaveInputs ==
  { BaseCollection,
    RenamedCollection,
    <<Scenario(<<"y">>, [EmptyPrompts EXCEPT !["AI-1"] = <<"z">>])>>,
    <<Scenario(<<"z">>, [EmptyPrompts EXCEPT !["AI-2"] = <<"q", "q", "q", "q", "q">>])>>,
    <<Scenario(<<"z">>, [slot \in AllSlots \cup {ExtraSlot} |-> <<"z">>])>>,
    <<Scenario(<<"z">>, [slot \in AllSlots \ {"AI-3"} |-> <<>>])>>,
    <<>> }

PipeIdle ==
  /\ input = <<>> /\ stage = "off" /\ verdict = Ok
  /\ section = <<>> /\ loaded = [ok |-> FALSE, err |-> "", scenarios |-> <<>>]
  /\ loaded_from = Absent

NoNames == [raised |-> FALSE, value |-> <<>>]
None == <<"<None>">>

\* no dialog is open
NoDialog ==
  [scenarios |-> <<>>, current_scenario_name |-> None, name_field |-> <<>>,
   prompt_editors |-> EmptyPrompts, modified |-> FALSE,
   scenario_list |-> <<>>, current_item |-> None, box |-> "", open |-> FALSE]

UiIdle == names = NoNames /\ dialog = NoDialog /\ events = 0

CallIdle ==
  /\ pc = "idle" /\ scenarios = <<>> /\ create_backup = TRUE
  /\ new_content = <<>> /\ backup_path = -1 /\ result = NoResult
  /\ trace = <<>> /\ host0 = host /\ tmp0 = tmp /\ backups0 = backups
  /\ calls = 0

Init ==
  /\ host \in InitialHosts
  /\ tmp = Absent
  /\ backups = [sec \in Seconds |-> Absent]
  /\ now = 0
  /\ CallIdle
  /\ PipeIdle
  /\ UiIdle

\* ------------------------------------------------------------ save_scenarios
Fail(msg) ==
  /\ pc' = "Failed"
  /\ result' = [ok |-> FALSE, msg |-> msg]

Advance(step, next) ==
  /\ pc' = next
  /\ trace' = Append(trace, step)

\* the caller invokes save_scenarios(c, flag)
SaveCall ==
  /\ pc \in {"idle", "Done", "Failed"}
  /\ calls < MaxSaves
  /\ \E c \in SaveInputs, flag \in BOOLEAN :
       /\ scenarios' = c
       /\ create_backup' = flag
  /\ pc' = "Validating"
  /\ calls' = calls + 1
  /\ new_content' = <<>> /\ backup_path' = -1 /\ result' = NoResult
  /\ trace' = <<>>
  /\ host0' = host /\ tmp0' = tmp /\ backups0' = backups
  /\ UNCHANGED <<fsVars, pipeVars, uiVars>>

\* variant: the verdict of the validator is ignored
Validating_ungated ==
  /\ pc = "Validating"
  /\ Advance("Validating", IF create_backup THEN "BackingUp" ELSE "Generating")
  /\ UNCHANGED result
  /\ UNCHANGED <<fsVars, pipeVars, uiVars, scenarios, create_backup, new_content,
                 backup_path, host0, tmp0, backups0, calls>>

\* lines 297-300
Validating ==
  /\ pc = "Validating"
  /\ LET v == validate_all_scenarios(scenarios) IN
       IF ~v.ok THEN Fail(v.err) /\ UNCHANGED trace
       ELSE /\ Advance("Validating",
                       IF create_backup THEN "BackingUp" ELSE "Generating")
            /\ UNCHANGED result
  /\ UNCHANGED <<fsVars, pipeVars, uiVars, scenarios, create_backup, new_content,
                 backup_path, host0, tmp0, backups0, calls>>

\* variant: the backup path is computed but nothing is copied
BackingUp_no_copy ==
  /\ pc = "BackingUp"
  /\ \/ /\ host = Absent
        /\ Fail(<<"Failed to save scenarios", "FileNotFoundError">>)
        /\ UNCHANGED <<backup_path, trace>>
     \/ /\ host # Absent
        /\ backup_path' = now
        /\ Advance("BackingUp", "Generating")
        /\ UNCHANGED result
  /\ UNCHANGED <<host, tmp, backups, now, pipeVars, uiVars, scenarios, create_backup,
                 new_content, host0, tmp0, backups0, calls>>

\* lines 304-305 and create_backup, lines 166-173
BackingUp ==
  /\ pc = "BackingUp"
  /\ \/ /\ host = Absent
        /\ Fail(<<"Failed to save scenarios", "FileNotFoundError">>)
        /\ UNCHANGED <<backups, backup_path, trace>>
     \/ /\ host # Absent
        /\ backups' = [backups EXCEPT ![now] = host]
        /\ backup_path' = now
        /\ Advance("BackingUp", "Generating")
        /\ UNCHANGED result
     \/ /\ host # Absent          \* shutil.copy2 raises
        /\ Fail(<<"Failed to save scenarios", "OSError">>)
        /\ UNCHANGED <<backups, backup_path, trace>>
  /\ UNCHANGED <<host, tmp, now, pipeVars, uiVars, scenarios, create_backup,
                 new_content, host0, tmp0, backups0, calls>>

\* lines 307-314
Generating ==
  /\ pc = "Generating"
  /\ LET g == generate_config_content(host, scenarios) IN
       IF ~g.ok
         THEN /\ Fail(<<"Failed to save scenarios", g.err>>)
              /\ UNCHANGED <<new_content, trace>>
       ELSE IF ~ParsesAsPython(g.content)
         THEN /\ Fail(<<"Generated config has invalid Python syntax">>)
              /\ new_content' = g.content
              /\ UNCHANGED trace
       ELSE /\ new_content' = g.content
            /\ Advance("Generating", "WritingTemp")
            /\ UNCHANGED result
  /\ UNCHANGED <<fsVars, pipeVars, uiVars, scenarios, create_backup, backup_path,
                 host0, tmp0, backups0, calls>>

\* variant: the temp file is swapped in without being read back
WritingTemp_no_selfcheck ==
  /\ pc = "WritingTemp"
  /\ \/ /\ tmp' = new_content
        /\ Advance("WritingTemp", "Swapping")
        /\ UNCHANGED result
     \/ /\ tmp' \in {tmp, <<>>}
        /\ Fail(<<"Failed to save scenarios", "OSError">>)
        /\ UNCHANGED trace
  /\ UNCHANGED <<host, backups, now, pipeVars, uiVars, scenarios, create_backup,
                 new_content, backup_path, host0, tmp0, backups0, calls>>

\* lines 316-319
WritingTemp ==
  /\ pc = "WritingTemp"
  /\ \/ /\ tmp' = new_content
        /\ Advance("WritingTemp", "SelfChecking")
        /\ UNCHANGED result
     \/ /\ tmp' \in {tmp, <<>>}   \* open raises, or write raises
        /\ Fail(<<"Failed to save scenarios", "OSError">>)
        /\ UNCHANGED trace
  /\ UNCHANGED <<host, backups, now, pipeVars, uiVars, scenarios, create_backup,
                 new_content, backup_path, host0, tmp0, backups0, calls>>

\* lines 321-327
SelfChecking ==
  /\ pc = "SelfChecking"
  /\ \/ /\ tmp # Absent /\ ParsesAsPython(tmp)
        /\ Advance("SelfChecking", "Swapping")
        /\ UNCHANGED <<tmp, result>>
     \/ /\ tmp # Absent /\ ~ParsesAsPython(tmp)
        /\ tmp' = Absent
        /\ Fail(<<"Failed to validate temp config">>)
        /\ UNCHANGED trace
     \/ /\ tmp # Absent           \* reading the temp file raises
        /\ tmp' = Absent
        /\ Fail(<<"Failed to validate temp config">>)
        /\ UNCHANGED trace
  /\ UNCHANGED <<host, backups, now, pipeVars, uiVars, scenarios, create_backup,
                 new_content, backup_path, host0, tmp0, backups0, calls>>

\* lines 329-333
Swapping ==
  /\ pc = "Swapping"
  /\ \/ /\ host' = tmp
        /\ tmp' = Absent
        /\ pc' = "Done"
        /\ trace' = Append(trace, "Swapping")
        /\ result' = [ok |-> TRUE,
                      msg |-> <<"Scenarios saved successfully",
                                IF create_backup THEN backup_path ELSE -1>>]
     \/ /\ Fail(<<"Failed to save scenarios", "OSError">>)  \* os.replace raises
        /\ UNCHANGED <<host, tmp, trace>>
  /\ UNCHANGED <<backups, now, pipeVars, uiVars, scenarios, create_backup,
                 new_content, backup_path, host0, tmp0, backups0, calls>>

\* a second passes between two calls
Tick ==
  /\ pc \in {"idle", "Done", "Failed"}
  /\ now < MaxClock
  /\ now' = now + 1
  /\ UNCHANGED <<host, tmp, backups, callVars, pipeVars, uiVars>>

Next ==
  \/ SaveCall
  \/ Validating
  \/ BackingUp
  \/ Generating
  \/ WritingTemp
  \/ SelfChecking
  \/ Swapping
  \/ Tick

Spec == Init /\ [][Next]_vars

\* ------------------------------------- validate, serialize, parse in a row
PipeInit ==
  /\ host = Absent /\ tmp = Absent
  /\ backups = [sec \in Seconds |-> Absent]
  /\ now = 0
  /\ CallIdle
  /\ UiIdle
  /\ input \in PipelineInputs
  /\ stage = "input"
  /\ verdict = Ok
  /\ section = <<>>
  /\ loaded = [ok |-> FALSE, err |-> "", scenarios |-> <<>>]
  /\ loaded_from = Absent

ApplyValidate ==
  /\ stage = "input"
  /\ verdict' = validate_all_scenarios(input)
  /\ stage' = "validated"
  /\ UNCHANGED <<fsVars, callVars, uiVars, input, section, loaded, loaded_from>>

ApplySerialize ==
  /\ stage = "validated" /\ verdict.ok
  /\ section' = SectionText(input)
  /\ stage' = "serialized"
  /\ UNCHANGED <<fsVars, callVars, uiVars, input, verdict, loaded, loaded_from>>

ApplyParse ==
  /\ stage = "serialized"
  /\ loaded' = load_scenarios(section)
  /\ stage' = "parsed"
  /\ UNCHANGED <<fsVars, callVars, uiVars, input, verdict, section, loaded_from>>

PipeNext == ApplyValidate \/ ApplySerialize \/ ApplyParse

PipeSpec == PipeInit /\ [][PipeNext]_vars

\* ------------------------------------------ load_scenarios, get_scenario_names
\* sorted(S) for a set of strings
RECURSIVE SortedSeq(_)
SortedSeq(S) ==
  IF S = {} THEN <<>>
  ELSE LET m == CHOOSE x \in S : \A y \in S \ {x} : StrLess(x, y)
       IN <<m>> \o SortedSeq(S \ {m})

Returned(v) == [raised |-> FALSE, value |-> v]
Raised(e) == [raised |-> TRUE, value |-> e]

\* variant: the exception of load_scenarios reaches the caller
get_scenario_names_raising(file) ==
  LET r == load_scenarios(file)
  IN IF ~r.ok THEN Raised(r.err)
     ELSE Returned(SortedSeq(DOMAIN r.scenarios.v))

\* lines 346-350: sorted(scenarios.keys()), [] on any exception; sorted raises
\* TypeError when a key that is not a string meets a string
get_scenario_names(file) ==
  LET r == load_scenarios(file)
  IN IF ~r.ok THEN Returned(<<>>)
     ELSE IF NotAString \in DOMAIN r.scenarios.v
             /\ DOMAIN r.scenarios.v # {NotAString}
       THEN Returned(<<>>)
     ELSE Returned(SortedSeq(DOMAIN r.scenarios.v))

\* the dict a loaded value is for its caller; the keys come in sorted order,
\* which is their order in a document that generate_config_content wrote
AsCollection(value) ==
  LET sorted_names == SortedSeq(DOMAIN value.v)
      prompts(name) ==
        [slot \in {key[1] : key \in DOMAIN value.v[name].v} |->
           value.v[name].v[<<slot>>].v]
  IN [i \in DOMAIN sorted_names |->
        Scenario(sorted_names[i], prompts(sorted_names[i]))]

\* the text after "SYSTEM_PROMPT_PAIRS =" of a generated binding
ValueText(c) == SubSeq(SectionText(c), 3, Len(SectionText(c)))

OtherCollection ==
  <<Scenario(<<"y">>, [EmptyPrompts EXCEPT !["AI-1"] = <<"z">>])>>

\* values bound to the name in the documents given to load_scenarios
LoadValues ==
  { ValueText(BaseCollection),
    ValueText(OtherCollection),
    <<"LB", "RB">>,
    <<"q", "z", "q">>,
    <<"NUM">>,
    <<"y">>,
    <<"LB", "q", "z", "q", "COLON", "q", "z", "q", "RB">>,
    <<"LB", "NUM", "COLON", "LB", "RB", "RB">>,
    <<"LB", "q", "z", "q", "COLON",
        "LB", "q", "AI-1", "q", "COLON", "NUM", "RB", "RB">>,
    <<"LB", "LB", "RB", "COLON", "q", "z", "q", "RB">>,
    <<"LB", "q", "z", "q", "COLON", "y", "RB">>,
    <<"LB">> }

RepeatedValues ==
  { ValueText(BaseCollection), ValueText(OtherCollection), <<"LB", "RB">>,
    <<"y">> }

BindingText(v) == <<CONFIG_NAME, "EQ">> \o v

LoadHosts ==
  { pre \o BindingText(v) \o post :
      pre \in {<<>>, <<"STMT", "NL">>},
      v \in LoadValues,
      post \in {<<>>, <<"NL">>, <<"NL", "STMT", "NL">>} }
  \cup
  { BindingText(v1) \o <<"NL">> \o BindingText(v2) \o <<"NL">> :
      v1 \in RepeatedValues, v2 \in RepeatedValues }
  \cup
  { <<>>, <<"STMT", "NL">>, <<"CMT", "NL">>, <<CONFIG_NAME, "NL">>,
    <<"q", CONFIG_NAME, "EQ", "LB", "RB", "q", "NL">>,
    <<"q", "z">>,
    Absent }

LoadInit ==
  /\ host \in LoadHosts
  /\ tmp = Absent
  /\ backups = [sec \in Seconds |-> Absent]
  /\ now = 0
  /\ CallIdle
  /\ PipeIdle
  /\ UiIdle

\* the caller invokes load_scenarios()
LoadCall ==
  /\ stage = "off"
  /\ loaded' = load_scenarios(host)
  /\ loaded_from' = host
  /\ stage' = "loaded"
  /\ UNCHANGED <<fsVars, callVars, uiVars, input, verdict, section>>

\* the caller invokes get_scenario_names()
NamesCall ==
  /\ stage = "loaded"
  /\ names' = get_scenario_names(host)
  /\ stage' = "named"
  /\ UNCHANGED <<fsVars, callVars, dialog, events, input, verdict, section,
                  loaded, loaded_from>>

LoadNext == LoadCall \/ NamesCall

LoadSpec == LoadInit /\ [][LoadNext]_vars

\* ------------------------------------------------------ ScenarioEditorDialog
\* self.scenarios is a dict: the sequence of its items in insertion order
DictHas(d, name) == \E i \in DOMAIN d : d[i].name = name

DictGet(d, name) == d[CHOOSE i \in DOMAIN d : d[i].name = name].prompts

DictSet(d, name, prompts) ==
  IF DictHas(d, name)
    THEN [i \in DOMAIN d |->
            IF d[i].name = name THEN Scenario(name, prompts) ELSE d[i]]
  ELSE Append(d, Scenario(name, prompts))

DictDel(d, name) == SelectSeq(d, LAMBDA e : e.name # name)

\* truth value of self.current_scenario_name: None and "" are false
Truthy(name) == name # None /\ name # <<>>

Box(dlg, title) == [dlg EXCEPT !.box = title]

\* lines 301-308
clear_editor(dlg) ==
  [dlg EXCEPT !.current_scenario_name = None,
              !.name_field = <<>>,
              !.prompt_editors = EmptyPrompts]

\* lines 281-299
load_scenario_into_editor(dlg, scenario_name) ==
  IF ~DictHas(dlg.scenarios, scenario_name) THEN dlg
  ELSE [dlg EXCEPT
          !.current_scenario_name = scenario_name,
          !.name_field = scenario_name,
          !.prompt_editors =
            [slot \in AllSlots |->
               PromptGet(DictGet(dlg.scenarios, scenario_name), slot)]]

\* lines 272-279: the slot of scenario_list.currentItemChanged
on_scenario_selected(dlg, current) ==
  IF current = None THEN clear_editor(dlg)
  ELSE load_scenario_into_editor(dlg, current)

\* the list makes item its current item; the signal fires when it changes
setCurrentItem(dlg, item) ==
  IF dlg.current_item = item THEN dlg
  ELSE on_scenario_selected([dlg EXCEPT !.current_item = item], item)

\* lines 262-270: clear() drops the current item, setCurrentRow(0) sets it
populate_scenario_list(dlg) ==
  LET cleared == [setCurrentItem(dlg, None) EXCEPT !.scenario_list = <<>>]
      listed == SortedSeq({dlg.scenarios[i].name : i \in DOMAIN dlg.scenarios})
      filled == [cleared EXCEPT !.scenario_list = listed]
  IN IF listed = <<>> THEN filled ELSE setCurrentItem(filled, listed[1])

\* findItems(name, MatchExactly) and setCurrentItem(items[0])
SelectFound(dlg, name) ==
  IF \E i \in DOMAIN dlg.scenario_list : dlg.scenario_list[i] = name
    THEN setCurrentItem(dlg, name)
  ELSE dlg

\* lines 22-33 and 250-260: the dialog after its construction
NewDialog(file) ==
  LET created == [NoDialog EXCEPT !.open = TRUE]
      r == load_scenarios(file)
  IN IF ~r.ok THEN Box(created, "Load Error")
     ELSE populate_scenario_list(
            [created EXCEPT !.scenarios = AsCollection(r.scenarios)])

\* lines 337-378; text and ok are what QInputDialog.getText returned
on_new_scenario(dlg, text, ok) ==
  IF ~ok \/ Strip(text) = <<>> THEN dlg
  ELSE IF DictHas(dlg.scenarios, Strip(text)) THEN Box(dlg, "Duplicate Name")
  ELSE LET added == [dlg EXCEPT !.scenarios =
                                  DictSet(@, Strip(text), EmptyPrompts)]
       IN [SelectFound(populate_scenario_list(added), Strip(text))
             EXCEPT !.modified = TRUE]

\* lines 380-436
on_rename_scenario(dlg, text, ok) ==
  IF ~Truthy(dlg.current_scenario_name) THEN Box(dlg, "No Selection")
  ELSE IF ~ok \/ Strip(text) = <<>> THEN dlg
  ELSE IF Strip(text) = dlg.current_scenario_name THEN dlg
  ELSE IF DictHas(dlg.scenarios, Strip(text)) THEN Box(dlg, "Duplicate Name")
  ELSE LET old_name == dlg.current_scenario_name
           new_name == Strip(text)
           renamed ==
             [dlg EXCEPT
                !.scenarios = DictSet(DictDel(@, old_name), new_name,
                                      DictGet(dlg.scenarios, old_name)),
                !.current_scenario_name = new_name,
                !.name_field = new_name]
       IN [SelectFound(populate_scenario_list(renamed), new_name)
             EXCEPT !.modified = TRUE]

\* lines 438-470; yes is the answer to the confirmation
on_delete_scenario(dlg, yes) ==
  IF ~Truthy(dlg.current_scenario_name) THEN Box(dlg, "No Selection")
  ELSE IF ~yes THEN dlg
  ELSE LET deleted == [dlg EXCEPT !.scenarios =
                                    DictDel(@, dlg.current_scenario_name)]
       IN [populate_scenario_list(clear_editor(deleted))
             EXCEPT !.modified = TRUE]

\* variant: the changed name is written without looking for it in the dict
CommitEditor_overwrites(dlg) ==
  IF ~Truthy(dlg.current_scenario_name) THEN dlg
  ELSE LET new_name == Strip(dlg.name_field)
           prompts == dlg.prompt_editors
       IN IF new_name # dlg.current_scenario_name
            THEN [dlg EXCEPT
                    !.scenarios =
                      DictSet(DictDel(@, dlg.current_scenario_name),
                              new_name, prompts),
                    !.current_scenario_name = new_name]
          ELSE [dlg EXCEPT !.scenarios =
                             DictSet(@, dlg.current_scenario_name, prompts)]

\* lines 474-493: the editor fields are written into self.scenarios
CommitEditor(dlg) ==
  IF ~Truthy(dlg.current_scenario_name) THEN dlg
  ELSE LET new_name == Strip(dlg.name_field)
           prompts == dlg.prompt_editors
       IN IF new_name # dlg.current_scenario_name
            THEN IF DictHas(dlg.scenarios, new_name)
                   THEN Box(dlg, "Duplicate Name")
                 ELSE [dlg EXCEPT
                         !.scenarios =
                           DictSet(DictDel(@, dlg.current_scenario_name),
                                   new_name, prompts),
                         !.current_scenario_name = new_name]
          ELSE [dlg EXCEPT !.scenarios =
                             DictSet(@, dlg.current_scenario_name, prompts)]

\* variant: the document is cut where the binding was when it was loaded
SaveRun_stale_range(file, temp, copies, c, second) ==
  LET failed(t, b) == [ok |-> FALSE, host |-> file, tmp |-> t, backups |-> b]
      copied == [copies EXCEPT ![second] = file]
      located == generate_config_content(file, c).ok
      span == SectionSpan(loaded_from, ast_parse(loaded_from))
      content == Slice(file, 0, span.start_idx) \o SectionText(c)
                   \o Slice(file, span.end_idx, Len(file))
  IN IF ~validate_all_scenarios(c).ok \/ file = Absent
       THEN {failed(temp, copies)}
     ELSE {failed(temp, copies)} \cup
       IF ~located \/ ~ParsesAsPython(content)
         THEN {failed(temp, copied)}
       ELSE {failed(t, copied) : t \in {temp, <<>>, Absent, content}}
            \cup {[ok |-> TRUE, host |-> content, tmp |-> Absent,
                   backups |-> copied]}

\* what one save_scenarios(c) call, lines 286-336, can leave behind when it
\* runs from start to end: its success flag and the three kinds of file
SaveRun(file, temp, copies, c, second) ==
  LET failed(t, b) == [ok |-> FALSE, host |-> file, tmp |-> t, backups |-> b]
      copied == [copies EXCEPT ![second] = file]
      generated == generate_config_content(file, c)
  IN IF ~validate_all_scenarios(c).ok \/ file = Absent
       THEN {failed(temp, copies)}
     ELSE {failed(temp, copies)} \cup
       IF ~generated.ok \/ ~ParsesAsPython(generated.content)
         THEN {failed(temp, copied)}
       ELSE {failed(t, copied) : t \in {temp, <<>>, Absent, generated.content}}
            \cup {[ok |-> TRUE, host |-> generated.content, tmp |-> Absent,
                   backups |-> copied]}

\* text the user types into the name field, a prompt editor or an input dialog
EditorNames == { <<>>, <<"z">>, <<"y">>, <<"SP", "y">>, <<"q", "s">> }
EditorPrompts == { <<>>, <<"z">> }
EditedSlots == {"AI-1"}

TwoScenarios ==
  <<Scenario(<<"y">>, [EmptyPrompts EXCEPT !["AI-1"] = <<"z">>]),
    Scenario(<<"z">>, EmptyPrompts)>>

EditorHosts ==
  { BaseSection \o <<"NL">>, SectionText(TwoScenarios) \o <<"NL">>, Absent }

EditorInit ==
  /\ host \in EditorHosts
  /\ tmp = Absent
  /\ backups = [sec \in Seconds |-> Absent]
  /\ now = 0
  /\ CallIdle
  /\ PipeIdle
  /\ names = NoNames
  /\ dialog = NewDialog(host)
  /\ events = 0

\* the dialog is open and handles one more user action
Ready == dialog.open /\ events < MaxEvents

Handled(dlg) ==
  /\ dialog' = dlg
  /\ events' = events + 1
  /\ UNCHANGED <<fsVars, callVars, pipeVars, names>>

\* the user picks another item of the list
SelectScenario ==
  /\ Ready
  /\ \E i \in DOMAIN dialog.scenario_list :
       /\ dialog.scenario_list[i] # dialog.current_item
       /\ Handled(setCurrentItem(Box(dialog, ""), dialog.scenario_list[i]))

\* the user types in the name field: textChanged, lines 310-312
TypeName ==
  /\ Ready
  /\ \E text \in EditorNames :
       /\ text # dialog.name_field
       /\ Handled([Box(dialog, "") EXCEPT !.name_field = text,
                                          !.modified = TRUE])

\* the user types in a prompt editor
TypePrompt ==
  /\ Ready
  /\ \E slot \in EditedSlots, text \in EditorPrompts :
       /\ text # dialog.prompt_editors[slot]
       /\ Handled([Box(dialog, "") EXCEPT !.prompt_editors[slot] = text,
                                          !.modified = TRUE])

OnNewScenario ==
  /\ Ready
  /\ \E text \in EditorNames, ok \in BOOLEAN :
       Handled(on_new_scenario(Box(dialog, ""), text, ok))

OnRenameScenario ==
  /\ Ready
  /\ \E text \in EditorNames, ok \in BOOLEAN :
       Handled(on_rename_scenario(Box(dialog, ""), text, ok))

OnDeleteScenario ==
  /\ Ready
  /\ \E yes \in BOOLEAN : Handled(on_delete_scenario(Box(dialog, ""), yes))

\* lines 472-521: Save All Changes
OnSave ==
  /\ Ready
  /\ LET committed == CommitEditor(Box(dialog, "")) IN
     IF committed.box = "Duplicate Name" THEN Handled(committed)
     ELSE IF ~validate_all_scenarios(committed.scenarios).ok
       THEN Handled(Box(committed, "Validation Error"))
     ELSE \E run \in SaveRun(host, tmp, backups, committed.scenarios, now) :
            /\ host' = run.host /\ tmp' = run.tmp /\ backups' = run.backups
            /\ dialog' = IF run.ok
                           THEN [committed EXCEPT !.box = "Success",
                                                  !.modified = FALSE,
                                                  !.open = FALSE]
                         ELSE Box(committed, "Save Error")
            /\ events' = events + 1
            /\ UNCHANGED <<now, callVars, pipeVars, names>>

\* lines 523-538: the window is closed; stay is the answer "No" to the warning
CloseEvent ==
  /\ Ready
  /\ \E stay \in BOOLEAN :
       Handled(IF dialog.modified /\ stay THEN Box(dialog, "Unsaved Changes")
               ELSE [Box(dialog, "") EXCEPT !.open = FALSE])

EditorNext ==
  \/ SelectScenario
  \/ TypeName
  \/ TypePrompt
  \/ OnNewScenario
  \/ OnRenameScenario
  \/ OnDeleteScenario
  \/ OnSave
  \/ CloseEvent

EditorSpec == EditorInit /\ [][EditorNext]_vars

\* ------------------------------------------- load, another writer, save
\* host documents of a session: the binding alone, the binding between other
\* statements with blank lines after it, and a document that binds twice
SessionHosts ==
  { BaseSection \o <<"NL">>,
    <<"STMT", "NL">> \o BaseSection \o <<"NL", "NL", "STMT", "NL">>,
    BaseSection \o <<"NL">> \o SectionText(OtherCollection) \o <<"NL">> }

\* collections the consumer passes to save_scenarios
QuoteRunCollection ==
  <<Scenario(<<"z">>,
     [EmptyPrompts EXCEPT !["AI-1"] = <<"q", "q", "q", "q", "q", "z">>])>>

SessionInputs == { BaseCollection, QuoteRunCollection }

\* what another process writes into config.py
ExternalTexts(file) ==
  { <<"STMT", "NL">> \o file } \cup
  IF EndsWith(file, <<"NL">>)
    THEN { file \o SectionText(OtherCollection) \o <<"NL">> }
  ELSE {}

SessionInit ==
  /\ host \in SessionHosts
  /\ tmp = Absent
  /\ backups = [sec \in Seconds |-> Absent]
  /\ now = 0
  /\ CallIdle
  /\ PipeIdle
  /\ UiIdle

\* the session goes on until a save_scenarios call returns failure
SessionLive == calls = 0 \/ result.ok

\* the consumer calls load_scenarios()
SessionLoad ==
  /\ SessionLive
  /\ loaded' = load_scenarios(host)
  /\ loaded_from' = host
  /\ stage' = "loaded"
  /\ UNCHANGED <<fsVars, callVars, uiVars, input, verdict, section>>

\* another process rewrites config.py
ExternalWrite ==
  /\ SessionLive
  /\ events < MaxWrites
  /\ host # Absent
  /\ host' \in ExternalTexts(host)
  /\ events' = events + 1
  /\ UNCHANGED <<tmp, backups, now, callVars, pipeVars, names, dialog>>

\* the consumer calls save_scenarios(c) on the collection it holds
SessionSave ==
  /\ SessionLive
  /\ stage \in {"loaded", "saved"}
  /\ loaded.ok
  /\ calls < MaxSaves
  /\ \E c \in SessionInputs :
       \E run \in SaveRun(host, tmp, backups, c, now) :
         /\ host' = run.host
         /\ tmp' = run.tmp
         /\ backups' = run.backups
         /\ scenarios' = c
         /\ result' = [ok |-> run.ok, msg |-> <<>>]
         /\ new_content' = IF generate_config_content(host, c).ok
                             THEN generate_config_content(host, c).content
                           ELSE <<>>
  /\ host0' = host /\ tmp0' = tmp /\ backups0' = backups
  /\ calls' = calls + 1
  /\ stage' = "saved"
  /\ UNCHANGED <<now, pc, create_backup, backup_path, trace, uiVars, input,
                 verdict, section, loaded, loaded_from>>

SessionNext == SessionLoad \/ ExternalWrite \/ SessionSave

SessionSpec == SessionInit /\ [][SessionNext]_vars

\* ======================================================== properties
\* the value load_scenarios returns for a document whose binding holds c
PromptsValue(prompts) ==
  [t |-> "dict",
   v |-> [k \in {<<slot>> : slot \in DOMAIN prompts} |->
            [t |-> "str", v |-> prompts[k[1]]]]]

AsValue(c) ==
  [t |-> "dict",
   v |-> [n \in Range(Names(c)) |->
            PromptsValue(c[CHOOSE i \in DOMAIN c : c[i].name = n].prompts)]]

\* C1: every collection the validator accepts is read back unchanged from the
\* section text the serializer emits for it: same names, same slots, same texts.
C1_RoundTrip ==
  stage = "parsed" => loaded.ok /\ loaded.scenarios = AsValue(input)

\* the binding generate_config_content cuts out of a document: first symbol
\* of its name and last symbol of its value literal
ReplacedBinding(doc) ==
  LET found == Bindings(ast_parse(doc)) IN found[Len(found)]

\* C2: a successful save leaves every symbol before the name of the binding
\* and every symbol after its value literal as it was.
C2_OnlyBindingChanged ==
  pc = "Done" =>
    LET node == ReplacedBinding(host0)
        nBefore == node.s - 1
        nAfter == Len(host0) - node.e
    IN /\ Len(host) >= nBefore + nAfter
       /\ SubSeq(host, 1, nBefore) = SubSeq(host0, 1, nBefore)
       /\ SubSeq(host, Len(host) - nAfter + 1, Len(host))
            = SubSeq(host0, node.e + 1, Len(host0))

\* the backup files differ from those at the start of the call by at most
\* one file, which holds the host document as it was
AtMostOneBackupAdded ==
  \A sec \in Seconds :
    backups[sec] # backups0[sec] => sec = backup_path /\ backups[sec] = host0

\* C3: a failed save leaves the host document as it was, and nothing else on
\* disk changes except that a backup file may have been added.
C3_FailureLeavesNoTrace ==
  pc = "Failed" => host = host0 /\ tmp = tmp0 /\ AtMostOneBackupAdded

\* the part of C3 about the host document alone
HostUnchangedOnFailure == pc = "Failed" => host = host0

\* the steps of one call in program order
StepsOf(flag) ==
  IF flag
    THEN <<"Validating", "BackingUp", "Generating", "WritingTemp",
           "SelfChecking", "Swapping">>
  ELSE <<"Validating", "Generating", "WritingTemp", "SelfChecking", "Swapping">>

\* C4: the steps of a call succeed only in program order, the running step is
\* the one after the last success, and the host file is replaced only by the
\* swap, after the temp file was written with the new text and re-parsed.
C4_StepOrder ==
  pc # "idle" =>
    LET steps == StepsOf(create_backup) IN
    /\ Len(trace) <= Len(steps)
    /\ trace = SubSeq(steps, 1, Len(trace))
    /\ pc \notin {"Done", "Failed"} => pc = steps[Len(trace) + 1]
    /\ pc = "Done" <=> trace = steps
    /\ host # host0 =>
         /\ pc = "Done"
         /\ host = new_content
         /\ ast_parse(host).ok

C4_Witness ==
  /\ pc = "Done" /\ create_backup /\ host # host0
  /\ trace = StepsOf(TRUE)

HostParses(doc) == doc # Absent /\ ast_parse(doc).ok

\* C5: once the host document parses, it parses after every step of every
\* save call, whatever collection is passed and whichever call fails.
C5_HostKeepsParsing ==
  [][host' # host => (HostParses(host) => HostParses(host'))]_vars

\* a call was refused because the regenerated text does not parse
C5_Witness ==
  /\ pc = "Failed" /\ new_content # <<>> /\ ~ast_parse(new_content).ok
  /\ HostParses(host) /\ calls = 2

\* C6: a successful save with the backup flag set has copied the host
\* document, as it was before the save, to the backup file it names; with the
\* flag cleared no backup file is written.
C6_BackupOnSuccess ==
  pc = "Done" =>
    IF create_backup
      THEN /\ backup_path \in Seconds
           /\ backups[backup_path] = host0
           /\ result.msg[2] = backup_path
    ELSE backups = backups0

C6_Witness ==
  /\ pc = "Done" /\ create_backup /\ calls = 2
  /\ host # host0 /\ backups[backup_path] = host0

\* C7: a collection that fails validation stops the call at the gate: the
\* validation error is returned and no file is created or written.
C7_ValidationGate ==
  (pc # "idle" /\ ~validate_all_scenarios(scenarios).ok) =>
    /\ pc \in {"Validating", "Failed"}
    /\ host = host0 /\ tmp = tmp0 /\ backups = backups0
    /\ pc = "Failed" =>
         result = [ok |-> FALSE, msg |-> validate_all_scenarios(scenarios).err]

C7_Witness ==
  /\ pc = "Failed" /\ create_backup /\ host # Absent
  /\ ~validate_all_scenarios(scenarios).ok

HasExtraSlot(c) ==
  \E i \in DOMAIN c : ~(DOMAIN c[i].prompts \subseteq AllSlots)

\* C8: a collection holding a slot id outside AI-1..AI-5 does not pass the
\* validation gate of a save.
C8_ExtraSlotRejected ==
  (pc # "idle" /\ HasExtraSlot(scenarios)) => pc \in {"Validating", "Failed"}

\* the checks of the validator on one scenario, in the order of the claim:
\* blank name, name with both quote characters, required slot missing,
\* value that is not a string
ScenarioChecks(e) ==
  << \A i \in DOMAIN e.name : e.name[i] \in {"SP", "NL"},
     "q" \in Range(e.name) /\ "s" \in Range(e.name),
     ~(AllSlots \subseteq DOMAIN e.prompts),
     \E slot \in DOMAIN e.prompts : e.prompts[slot] = NotAString >>

CheckMessages ==
  << "Scenario name cannot be empty",
     "Scenario name cannot contain both single and double quotes",
     "Missing required AI slots",
     "Prompt must be a string" >>

FailsACheck(e) == \E k \in 1..4 : ScenarioChecks(e)[k]

HasDuplicateNames(c) ==
  \E i, j \in DOMAIN c : i < j /\ c[i].name = c[j].name

Least(S) == CHOOSE x \in S : \A y \in S : x <= y

\* the first failure in the order (1) empty collection, (2) duplicate
\* names, (3) scenario by scenario, check by check; <<>> when there is none
FirstFailure(c) ==
  IF c = <<>> THEN <<"Must have at least one scenario">>
  ELSE IF HasDuplicateNames(c) THEN <<"Duplicate scenario names found">>
  ELSE IF \A i \in DOMAIN c : ~FailsACheck(c[i]) THEN <<>>
  ELSE LET i == Least({j \in DOMAIN c : FailsACheck(c[j])})
           k == Least({n \in 1..4 : ScenarioChecks(c[i])[n]})
       IN <<"Scenario", c[i].name, CheckMessages[k]>>

\* C9: validate_all_scenarios reports the first failing check in the order
\* empty collection, duplicate names, then per scenario blank name, mixed
\* quotes, missing slot, non-string value, and succeeds exactly when no check
\* fails.
C9_FirstFailureInOrder ==
  stage # "input" =>
    LET expected == FirstFailure(input) IN
    /\ verdict.ok <=> expected = <<>>
    /\ ~verdict.ok =>
         /\ Len(verdict.err) >= Len(expected)
         /\ SubSeq(verdict.err, 1, Len(expected)) = expected

\* two checks fail in the second scenario, none in the first
C9_Witness ==
  /\ stage = "validated" /\ Len(input) = 2
  /\ ~FailsACheck(input[1])
  /\ ScenarioChecks(input[2])[2] /\ ScenarioChecks(input[2])[3]
  /\ verdict.err = <<"Scenario", input[2].name, CheckMessages[2]>>

\* the message names scenario e and every slot it lacks
NamesMissingSlots(err, e) ==
  /\ Len(err) = 4
  /\ err[1] = "Scenario" /\ err[2] = e.name
  /\ err[3] = "Missing required AI slots"
  /\ \A slot \in AllSlots \ DOMAIN e.prompts : slot \in Range(err[4])

\* C10 as stated: whenever some scenario lacks a required slot the
\* validator fails with a message naming that scenario and every slot it
\* lacks; an empty collection fails; a collection with two equal names fails.
C10_AsStated ==
  stage # "input" =>
    /\ \A i \in DOMAIN input :
         ScenarioChecks(input[i])[3] =>
           ~verdict.ok /\ NamesMissingSlots(verdict.err, input[i])
    /\ input = <<>> => ~verdict.ok
    /\ HasDuplicateNames(input) => ~verdict.ok

\* C10 amended: such a collection always fails; the message names the
\* scenario and every slot it lacks when no earlier check fails: the names
\* are distinct, the scenarios before it pass every check and its own name
\* passes the two name checks.
C10_MissingSlotReported ==
  stage # "input" =>
    /\ \A i \in DOMAIN input :
         ScenarioChecks(input[i])[3] =>
           /\ ~verdict.ok
           /\ ( /\ ~HasDuplicateNames(input)
                /\ \A j \in 1..(i - 1) : ~FailsACheck(input[j])
                /\ ~ScenarioChecks(input[i])[1]
                /\ ~ScenarioChecks(input[i])[2] )
              => NamesMissingSlots(verdict.err, input[i])
    /\ input = <<>> => ~verdict.ok
    /\ HasDuplicateNames(input) => ~verdict.ok

\* the second scenario lacks two slots and both are named
C10_Witness ==
  /\ stage = "validated" /\ Len(input) = 2
  /\ ~FailsACheck(input[1])
  /\ Cardinality(AllSlots \ DOMAIN input[2].prompts) = 2
  /\ NamesMissingSlots(verdict.err, input[2])

\* ---------------------------------------------------------- load outcomes
FileNotFound == "FileNotFoundError"
SectionNotFound == "ValueError: SYSTEM_PROMPT_PAIRS not found"
MalformedSection ==
  { "ValueError: config.py has syntax errors",
    "ValueError: Failed to parse SYSTEM_PROMPT_PAIRS value",
    "ValueError: SYSTEM_PROMPT_PAIRS is not a dictionary" }

LoadReturned == stage \in {"loaded", "named"}

\* a literal that evaluates to a value: strings, numbers, and dict displays
\* whose keys are strings or numbers
RECURSIVE Evaluates(_)
Evaluates(val) ==
  \/ val.t \in {"str", "num"}
  \/ /\ val.t = "dict"
     /\ \A i \in DOMAIN val.v :
          val.v[i][1].t \in {"str", "num"} /\ Evaluates(val.v[i][2])

\* the first binding of a document that parses holds a mapping literal
BoundToMapping(doc) ==
  LET tree == ast_parse(doc)
  IN /\ Bindings(tree) # <<>>
     /\ Bindings(tree)[1].val.t = "dict"
     /\ Evaluates(Bindings(tree)[1].val)

\* C11: load_scenarios fails in three distinguishable ways and returns no
\* collection in any of them: FileNotFound when config.py does not exist,
\* SectionNotFound when the document binds the name nowhere, MalformedSection
\* when the document does not parse or the bound value cannot be parsed as a
\* mapping literal.
C11_ThreeOutcomes ==
  LoadReturned =>
    /\ FileNotFound \notin MalformedSection /\ SectionNotFound \notin MalformedSection
    /\ FileNotFound # SectionNotFound
    /\ host = Absent => ~loaded.ok /\ loaded.err = FileNotFound
    /\ host # Absent /\ ~ast_parse(host).ok =>
         ~loaded.ok /\ loaded.err \in MalformedSection
    /\ host # Absent /\ ast_parse(host).ok /\ Bindings(ast_parse(host)) = <<>> =>
         ~loaded.ok /\ loaded.err = SectionNotFound
    /\ host # Absent /\ ast_parse(host).ok /\ Bindings(ast_parse(host)) # <<>>
         /\ ~BoundToMapping(host) =>
         ~loaded.ok /\ loaded.err \in MalformedSection
    /\ ~loaded.ok => loaded.scenarios = <<>>

\* a mapping from strings to mappings from strings to strings
WellShaped(value) ==
  /\ value.t = "dict"
  /\ \A name \in DOMAIN value.v :
       /\ IsString(name)
       /\ value.v[name].t = "dict"
       /\ \A slot \in DOMAIN value.v[name].v :
            IsString(slot) /\ value.v[name].v[slot].t = "str"

\* C12: load_scenarios returns a collection only when the bound value is a
\* mapping from strings to mappings from strings to strings; a non-literal
\* expression, a key that is not a string or a scenario value that is not a
\* mapping of strings makes it fail.
C12_OnlyWellShapedLoads ==
  LoadReturned /\ loaded.ok => WellShaped(loaded.scenarios)

\* the text of the i-th binding of a document that parses
BindingSource(doc, i) ==
  LET node == Bindings(ast_parse(doc))[i]
  IN SubSeq(doc, node.s, node.e)

BoundMoreThanOnce(doc) ==
  doc # Absent /\ ast_parse(doc).ok /\ Len(Bindings(ast_parse(doc))) > 1

C20_NoSwallowedFailure ==
  stage = "named" /\ ~load_scenarios(host).ok => names.raised

SaveReturned == pc \in {"Done", "Failed"}

\* C14: after a save_scenarios call has returned, with success or with a
\* failure at any step, no file config.py.tmp exists.
C14_NoTempAfterSave ==
  SaveReturned => tmp = Absent

\* C15: a backup file that exists is never written again: no step of any
\* later save, in the same second or a later one, changes its content.
C15_BackupImmutable ==
  [][\A sec \in Seconds :
       backups[sec] # Absent => backups'[sec] = backups[sec]]_vars

\* the collections that hold the items of c in any insertion order
Arrangements(c) ==
  { [i \in DOMAIN c |-> c[f[i]]] :
      f \in {g \in [DOMAIN c -> DOMAIN c] :
               \A i, j \in DOMAIN c : g[i] = g[j] => i = j} }

\* first position of pat in t after position from, 0 when there is none
FirstAfter(t, from, pat) ==
  LET hits == {p \in (from + 1)..Len(t) : StartsAt(t, p, pat)}
  IN IF hits = {} THEN 0 ELSE CHOOSE p \in hits : \A r \in hits : p <= r

\* where the line that opens the scenario, and the line of its k-th slot, start
KeyLine(name) ==
  <<"SP", NameQuote(name)>> \o name \o <<NameQuote(name), "COLON", "LB">>
KeyPos(text, name) == FirstAfter(text, 0, KeyLine(name))
SlotPos(text, name, slot) ==
  FirstAfter(text, KeyPos(text, name), <<"SP", "q", slot, "q", "COLON">>)
DeclaredSlots == <<"AI-1", "AI-2", "AI-3", "AI-4", "AI-5">>

Serialized == stage \in {"serialized", "parsed"}

\* C16: the section text is the same for every insertion order of the same
\* scenarios; in it the scenarios stand in lexicographic order of their names
\* and, inside each scenario, the slots AI-1..AI-5 in that order.
C16_OrderIndependent ==
  Serialized =>
    /\ \A d \in Arrangements(input) : SectionText(d) = section
    /\ \A i \in DOMAIN input :
         /\ KeyPos(section, input[i].name) > 0
         /\ \A k \in DOMAIN DeclaredSlots :
              /\ SlotPos(section, input[i].name, DeclaredSlots[k]) > 0
              /\ k > 1 =>
                   SlotPos(section, input[i].name, DeclaredSlots[k - 1])
                     < SlotPos(section, input[i].name, DeclaredSlots[k])
         /\ \A j \in DOMAIN input :
              StrLess(input[i].name, input[j].name) =>
                SlotPos(section, input[i].name, DeclaredSlots[5])
                  < KeyPos(section, input[j].name)

C16_Witness ==
  /\ Serialized
  /\ Len(input) = 2
  /\ StrLess(input[2].name, input[1].name)
  /\ KeyPos(section, input[2].name) < KeyPos(section, input[1].name)

\* C17: for every valid collection, the section text written for the
\* collection that is loaded back from its section text is the same text:
\* saving, loading and saving again changes no byte.
C17_ResaveIdentical ==
  stage = "parsed" /\ loaded.ok =>
    SectionText(AsCollection(loaded.scenarios)) = section

\* c is the loaded value with the scenario old renamed to the name of c[i]
IsRename(c, value, i, old) ==
  /\ old \in DOMAIN value.v
  /\ c[i].name \notin DOMAIN value.v
  /\ AsValue([c EXCEPT ![i].name = old]) = value

\* a key literal of the name, in either quote character
KeyLiterals(name) == {<<quote>> \o name \o <<quote>> : quote \in {"q", "s"}}

\* after is before with one occurrence of oldLit replaced by newLit
OnlyLiteralReplaced(before, after, oldLit, newLit) ==
  \E p \in 1..Len(before) :
    /\ StartsAt(before, p, oldLit)
    /\ after = SubSeq(before, 1, p - 1) \o newLit
                 \o SubSeq(before, p + Len(oldLit), Len(before))

\* C18: a successful save of the collection loaded from the host document
\* with one scenario renamed changes nothing but the key literal of that
\* scenario: the text before, inside and after the binding is otherwise kept.
C18_RenameChangesKeyOnly ==
  pc = "Done" /\ load_scenarios(host0).ok =>
    \A i \in DOMAIN scenarios, old \in DOMAIN load_scenarios(host0).scenarios.v :
      IsRename(scenarios, load_scenarios(host0).scenarios, i, old) =>
        \E oldLit \in KeyLiterals(old), newLit \in KeyLiterals(scenarios[i].name) :
          OnlyLiteralReplaced(host0, host, oldLit, newLit)

\* C19: a save attempt that validation rejects leaves the collection and the
\* current selection of the caller as they were before the attempt: when Save
\* All Changes ends with the Validation Error box, self.scenarios and
\* self.current_scenario_name are unchanged.
C19_RejectedSaveKeepsCollection ==
  [][dialog'.box = "Validation Error" /\ events' = events + 1 =>
       /\ dialog'.scenarios = dialog.scenarios
       /\ dialog'.current_scenario_name = dialog.current_scenario_name]_vars

\* C22: when config.py does not exist, save_scenarios of a valid collection
\* fails at its first file step, with the backup flag and without it: it
\* returns failure and creates no backup file, no temp file and no host file.
C22_MissingHostFailsFast ==
  host0 = Absent /\ pc # "idle" /\ validate_all_scenarios(scenarios).ok =>
    /\ host = Absent /\ tmp = tmp0 /\ backups = backups0
    /\ pc \notin {"WritingTemp", "SelfChecking", "Swapping", "Done"}
    /\ pc = "Failed" => ~result.ok /\ trace = <<"Validating">>

C22_Witness ==
  /\ pc = "Failed" /\ host0 = Absent /\ ~create_backup
  /\ validate_all_scenarios(scenarios).ok
  /\ calls = 2

\* names of ordinary characters, and slot maps over exactly the required slots
PlainCollection(c) ==
  \A i \in DOMAIN c :
    /\ \A j \in DOMAIN c[i].name : c[i].name[j] \in {"y", "z"}
    /\ DOMAIN c[i].prompts = AllSlots

\* C23: every prompt text of quote characters, backslashes and ordinary
\* characters is read back unchanged from the triple-quoted literal emitted
\* for it, and leaves every other slot and scenario of the section as it is.
C23_PromptTextParsesBack ==
  stage = "parsed" /\ PlainCollection(input) =>
    loaded.ok /\ loaded.scenarios = AsValue(input)

\* the quote at position i of e is not escaped: an even number of
\* backslashes stands before it
UnescapedQuote(e, i) ==
  /\ e[i] = "q"
  /\ \E n \in 0..(i - 1) :
       /\ n % 2 = 0
       /\ \A j \in (i - n)..(i - 1) : e[j] = "b"
       /\ i - n - 1 > 0 => e[i - n - 1] # "b"

NoUnescapedTriple(e) ==
  ~\E i \in 1..(Len(e) - 2) :
     UnescapedQuote(e, i) /\ e[i + 1] = "q" /\ e[i + 2] = "q"

Count(t, c) == Cardinality({i \in DOMAIN t : t[i] = c})

\* the line the section holds for a slot whose escaped text is e
SlotLine(slot, e) ==
  <<"SP", "q", slot, "q", "COLON", "q", "q", "q">> \o e
    \o <<"q", "q", "q", "COMMA">>

\* C24: in the text emitted for a prompt every backslash of the prompt is
\* doubled and every run of three quote characters is broken by a backslash,
\* so that the escaped text holds no three consecutive unescaped quotes.
C24_NoUnescapedTripleQuote ==
  Serialized =>
    \A i \in DOMAIN input, slot \in AllSlots :
      LET prompt_text == PromptGet(input[i].prompts, slot)
          e == EscapePrompt(prompt_text)
      IN /\ FirstAfter(section, 0, SlotLine(slot, e)) > 0
         /\ Count(e, "b") >= 2 * Count(prompt_text, "b")
         /\ NoUnescapedTriple(e)

\* prompt texts without a backslash and without three quotes in a row
SafePrompts(c) ==
  \A i \in DOMAIN c : \A slot \in DOMAIN c[i].prompts :
    /\ IsString(c[i].prompts[slot])
    /\ ~HasChar(c[i].prompts[slot], "b")
    /\ ~\E j \in DOMAIN c[i].prompts[slot] :
          StartsAt(c[i].prompts[slot], j, <<"q", "q", "q">>)

\* C25: the key literal written for an accepted scenario name (double quotes,
\* or single quotes when the name holds a double quote) parses back to
\* exactly that name, so the names read back are the names written.
C25_KeyLiteralParsesBack ==
  stage = "parsed" /\ SafePrompts(input) =>
    /\ StartsAt(section, KeyPos(section, input[1].name),
                <<"SP", IF HasChar(input[1].name, "q") THEN "s" ELSE "q">>)
    /\ loaded.ok
    /\ DOMAIN loaded.scenarios.v = Range(Names(input))

\* a step in which save_scenarios ran and returned success
SavedStep == calls' = calls + 1 /\ stage' = "saved" /\ result'.ok

\* number of symbols before the line that holds position p, and the position
\* of the line feed that ends the line holding position p (the last symbol
\* when the document ends without one)
LineStart(doc, p) ==
  LET feeds == {i \in 1..(p - 1) : doc[i] = "NL"}
  IN IF feeds = {} THEN 0 ELSE CHOOSE i \in feeds : \A j \in feeds : j <= i

LineEnd(doc, p) ==
  LET feeds == {i \in p..Len(doc) : doc[i] = "NL"}
  IN IF feeds = {} THEN Len(doc) ELSE CHOOSE i \in feeds : \A j \in feeds : i <= j

\* the lines of doc that hold its last binding of the name
BindingLines(doc) ==
  LET found == Bindings(ast_parse(doc))
      node == found[Len(found)]
  IN [from |-> LineStart(doc, node.s), to |-> LineEnd(doc, node.e)]

\* doc with the symbols after position range.from up to range.to replaced
CutAt(doc, range, text) ==
  SubSeq(doc, 1, range.from) \o text \o SubSeq(doc, range.to + 1, Len(doc))

SavedValue(c) ==
  [t |-> "dict",
   v |-> [n \in Range(Names(c)) |->
            [t |-> "dict",
             v |-> [k \in {<<slot>> : slot \in AllSlots} |->
                      [t |-> "str",
                       v |-> DictGet(c, n)[k[1]]]]]]]

\* C26: a load_scenarios that reads the document a successful
\* save_scenarios(C) wrote returns the names of C with the texts of C.
C26_LoadAfterSave ==
  stage = "loaded" /\ calls > 0 /\ result.ok /\ loaded_from = new_content =>
    loaded.ok /\ loaded.scenarios = SavedValue(scenarios)

\* C27: when the document binds the name more than once, a successful save
\* replaces the binding load_scenarios reads, the first one, and leaves the
\* text of every other binding as it was.
C27_SavesBindingItLoads ==
  [][SavedStep /\ BoundMoreThanOnce(host) =>
       /\ ParsesAsPython(host')
       /\ Len(Bindings(ast_parse(host'))) = Len(Bindings(ast_parse(host)))
       /\ BindingSource(host', 1) = SectionText(scenarios')
       /\ \A i \in 2..Len(Bindings(ast_parse(host))) :
            BindingSource(host', i) = BindingSource(host, i)]_vars

\* C28: after a successful save_scenarios(C), save_scenarios(C) on the
\* document it wrote does not fail at the steps that depend on the document
\* alone: some run of it returns success.
C28_SaveStaysPossible ==
  [][/\ stage = "saved" /\ result.ok /\ host = new_content
     /\ calls' = calls + 1 /\ scenarios' = scenarios
     => \/ result'.ok
        \/ \E run \in SaveRun(host, tmp, backups, scenarios, now) : run.ok]_vars

\* the prompt editors hold text that differs from what the collection stores
\* for the scenario being edited
TypedPrompt(dlg) ==
  /\ Truthy(dlg.current_scenario_name)
  /\ DictHas(dlg.scenarios, dlg.current_scenario_name)
  /\ \E slot \in AllSlots :
       dlg.prompt_editors[slot] #
         PromptGet(DictGet(dlg.scenarios, dlg.current_scenario_name), slot)

\* the step leaves the dialog open on another scenario without deleting one
MovesOn ==
  /\ dialog'.open
  /\ Truthy(dialog'.current_scenario_name)
  /\ dialog'.current_scenario_name # dialog.current_scenario_name
  /\ Len(dialog'.scenarios) >= Len(dialog.scenarios)

\* C29: when the user has typed prompt text for scenario A and then selects,
\* creates or renames a scenario, the collection that Save All Changes passes
\* to save_scenarios afterwards holds the typed text for A (under its new
\* name when A was renamed).
C29_TypedTextKept ==
  [][TypedPrompt(dialog) /\ MovesOn =>
       LET A == IF DictHas(dialog'.scenarios, dialog.current_scenario_name)
                  THEN dialog.current_scenario_name
                ELSE dialog'.current_scenario_name
           passed == CommitEditor(Box(dialog', "")).scenarios
       IN /\ DictHas(passed, A)
          /\ \A slot \in AllSlots :
               PromptGet(DictGet(passed, A), slot) = dialog.prompt_editors[slot]]_vars

\* the name field holds another name than the scenario being edited, and the
\* collection already has a scenario of that name
NameFieldCollides(dlg) ==
  /\ Truthy(dlg.current_scenario_name)
  /\ Strip(dlg.name_field) # dlg.current_scenario_name
  /\ DictHas(dlg.scenarios, Strip(dlg.name_field))

\* C30: in every state of the open dialog, New Scenario and Rename with a
\* name the collection already holds, and Save All Changes with the name
\* field changed to such a name, leave self.scenarios exactly as it is.
C30_NoOverwriteByCollision ==
  dialog.open =>
    /\ \A text \in EditorNames :
         Strip(text) # <<>> /\ DictHas(dialog.scenarios, Strip(text)) =>
           /\ on_new_scenario(Box(dialog, ""), text, TRUE).scenarios
                = dialog.scenarios
           /\ on_rename_scenario(Box(dialog, ""), text, TRUE).scenarios
                = dialog.scenarios
    /\ NameFieldCollides(dialog) =>
         CommitEditor(Box(dialog, "")).scenarios = dialog.scenarios

C30_Witness ==
  /\ dialog.open /\ dialog.box = "Duplicate Name"
  /\ NameFieldCollides(dialog)
  /\ TypedPrompt(dialog)
  /\ Len(dialog.scenarios) = 2

====
